---- MODULE Spec2Model ----
(***************************************************************************)
(* A model of dlls/webservices/listener.c: the WS_LISTENER object, its     *)
(* property table, its Created/Open/Closed life cycle and the locking      *)
(* discipline of its public entry points.                                  *)
(*                                                                         *)
(* One listener block is modelled.  Callers are the threads 1..NumThreads; *)
(* every public entry point is a sequence of steps of the calling thread   *)
(* (enter the critical section, run the body, leave it, and for            *)
(* WsFreeListener the unlocked tail), so that interleavings of calls on    *)
(* the same handle are explored.  WsCreateListener runs before the handle  *)
(* is published and is one step.                                           *)
(*                                                                         *)
(* A property value (a span of `size' bytes) is represented by the         *)
(* little-endian number the bytes spell: the all-zero span is 0 and a      *)
(* memcpy copies the number.                                               *)
(***************************************************************************)
EXTENDS Integers, Sequences, FiniteSets, TLC

(* ------------------------------ bounds -------------------------------- *)
NumThreads == 2
MaxVal == 2
MaxOverrides == 2
MaxAddrs == 2
MaxSock == 1

(* ------------------------- program constants --------------------------- *)
LISTENER_MAGIC == 1279873876

S_OK == 0
E_INVALIDARG == -2147024809
E_NOTIMPL == -2147467263
E_OUTOFMEMORY == -2147024882
WS_E_INVALID_OPERATION == -2143485949
WS_E_ADDRESS_NOT_AVAILABLE == -2143485940
WS_E_INVALID_FORMAT == -2143485952

WS_LISTENER_STATE_CREATED == 0
WS_LISTENER_STATE_OPEN == 3
WS_LISTENER_STATE_CLOSED == 6

WS_CHANNEL_TYPE_DUPLEX_SESSION == 7
WS_CHANNEL_TYPE_REQUEST == 8
WS_TCP_CHANNEL_BINDING == 1
WS_UDP_CHANNEL_BINDING == 2

WS_LISTENER_PROPERTY_LISTEN_BACKLOG == 0
WS_LISTENER_PROPERTY_STATE == 2
WS_LISTENER_PROPERTY_CHANNEL_TYPE == 4
WS_LISTENER_PROPERTY_CHANNEL_BINDING == 5
WS_LISTENER_PROPERTY_MULTICAST_INTERFACES == 8
WS_LISTENER_PROPERTY_CUSTOM_LISTENER_INSTANCE == 15

AF_INET == 2
AF_NETBIOS == 17
AF_INET6 == 23

WSAEMFILE == 10024
WSAEADDRINUSE == 10048
WSAENOTSOCK == 10038
WSANOTINITIALISED == 10093
WSAHOST_NOT_FOUND == 11001

\* sizeof ULONG, sizeof BOOL and the size of every enum.
SIZEOF_ULONG == 4
\* The size of a pointer and of the structures built of pointers, 64-bit build.
SIZEOF_PTR == 8
SIZEOF_CUSTOM_LISTENER_CALLBACKS == 80
SIZEOF_DISALLOWED_USER_AGENT_SUBSTRINGS == 16

INVALID_SOCKET == 0 - 1
(* The null pointer as a value argument: outside every byte span. *)
NULL == 0 - 1

Threads == 1..NumThreads
Vals == 0..MaxVal
SockHandles == 1..MaxSock

(* HRESULT_FROM_WIN32: 0x80070000 | (x & 0xffff) for x > 0, x itself else. *)
HRESULT_FROM_WIN32(x) == IF x <= 0 THEN x ELSE (x % 65536) - 2147024896

(* ---------------------- the property schema ---------------------------- *)
Desc(size, readonly) == [size |-> size, readonly |-> readonly]

(* The schema with WS_LISTENER_PROPERTY_STATE not marked read-only. *)
listener_props_state_writable ==
    << Desc(SIZEOF_ULONG, FALSE), Desc(SIZEOF_ULONG, FALSE), Desc(SIZEOF_ULONG, FALSE),
       Desc(SIZEOF_ULONG, FALSE), Desc(SIZEOF_ULONG, TRUE),  Desc(SIZEOF_ULONG, TRUE),
       Desc(SIZEOF_ULONG, FALSE), Desc(SIZEOF_ULONG, FALSE), Desc(0, FALSE),
       Desc(SIZEOF_ULONG, FALSE), Desc(SIZEOF_ULONG, FALSE), Desc(SIZEOF_ULONG, FALSE),
       Desc(SIZEOF_ULONG, FALSE), Desc(SIZEOF_CUSTOM_LISTENER_CALLBACKS, FALSE),
       Desc(0, FALSE), Desc(SIZEOF_PTR, TRUE),
       Desc(SIZEOF_DISALLOWED_USER_AGENT_SUBSTRINGS, FALSE) >>

listener_props ==
    << Desc(SIZEOF_ULONG, FALSE),                        \* LISTEN_BACKLOG
       Desc(SIZEOF_ULONG, FALSE),                        \* IP_VERSION
       Desc(SIZEOF_ULONG, TRUE),                         \* STATE
       Desc(SIZEOF_ULONG, FALSE),                        \* ASYNC_CALLBACK_MODEL
       Desc(SIZEOF_ULONG, TRUE),                         \* CHANNEL_TYPE
       Desc(SIZEOF_ULONG, TRUE),                         \* CHANNEL_BINDING
       Desc(SIZEOF_ULONG, FALSE),                        \* CONNECT_TIMEOUT
       Desc(SIZEOF_ULONG, FALSE),                        \* IS_MULTICAST
       Desc(0, FALSE),                                   \* MULTICAST_INTERFACES
       Desc(SIZEOF_ULONG, FALSE),                        \* MULTICAST_LOOPBACK
       Desc(SIZEOF_ULONG, FALSE),                        \* CLOSE_TIMEOUT
       Desc(SIZEOF_ULONG, FALSE),                        \* TO_HEADER_MATCHING_OPTIONS
       Desc(SIZEOF_ULONG, FALSE),                        \* TRANSPORT_URL_MATCHING_OPTIONS
       Desc(SIZEOF_CUSTOM_LISTENER_CALLBACKS, FALSE),    \* CUSTOM_LISTENER_CALLBACKS
       Desc(0, FALSE),                                   \* CUSTOM_LISTENER_PARAMETERS
       Desc(SIZEOF_PTR, TRUE),                           \* CUSTOM_LISTENER_INSTANCE
       Desc(SIZEOF_DISALLOWED_USER_AGENT_SUBSTRINGS, FALSE) >> \* DISALLOWED_USER_AGENT

\* The number of entries of listener_props.
PropCount == Len(listener_props)

(* ------------------- the generic property table ------------------------ *)
(* prop_init: slot i gets the schema's size and read-only flag (fixed is   *)
(* the declared size, 0 for a variable-size field); the backing buffer is  *)
(* zero-filled by the caller's heap_alloc_zero.                            *)
prop_init(desc, count) ==
    [i \in 1..count |-> [value |-> 0, size |-> desc[i].size,
                         fixed |-> desc[i].size, readonly |-> desc[i].readonly]]

(* prop_set: InvalidArgument for an id out of range, a read-only field, a  *)
(* size other than the declared fixed size, or a missing value; otherwise  *)
(* the slot is overwritten in place (a variable-size slot takes the        *)
(* supplied size).  The result is the HRESULT and the table afterwards.    *)
prop_set(prop, count, id, value, size) ==
    IF \/ id >= count
       \/ prop[id + 1].readonly
       \/ (prop[id + 1].fixed # 0 /\ size # prop[id + 1].fixed)
       \/ (value = NULL /\ size # 0)
    THEN [hr |-> E_INVALIDARG, prop |-> prop]
    ELSE [hr |-> S_OK,
          prop |-> [prop EXCEPT ![id + 1] =
                       [@ EXCEPT !.value = IF size = 0 THEN 0 ELSE value,
                                 !.size = size]]]

(* prop_get: InvalidArgument for an id out of range, a buffer size other   *)
(* than the stored size, or a missing buffer; otherwise the stored bytes   *)
(* are copied out.  buf is TRUE for a non-null buffer.                     *)
prop_get(prop, count, id, buf, size) ==
    IF id >= count \/ size # prop[id + 1].size \/ ~buf
    THEN [hr |-> E_INVALIDARG, written |-> FALSE, value |-> 0]
    ELSE [hr |-> S_OK, written |-> TRUE, value |-> prop[id + 1].value]

(* ------------------------------ state ---------------------------------- *)
VARIABLES
    heap,            \* the listener block: "none", "live" or "freed"
    listener,        \* struct listener: magic, type, binding, state, socket, prop
    cs,              \* listener->cs: valid (initialised, not deleted), inside (threads in it)
    create,          \* the WsCreateListener call: phase, arguments, result
    th,              \* per thread: position in its call, arguments, locals, result
    sockets,         \* the system's socket table, by handle
    winsock,         \* the INIT_ONCE of winsock_init, winsock_loaded, WSAStartup count
    lastSet,         \* history: per id, the bytes of the last successful write
    ghost            \* history: counts of releases, accesses to the block once freed

vars == << heap, listener, cs, create, th, sockets, winsock, lastSet, ghost >>

(* ------------------------- the socket layer ---------------------------- *)
FreeSock == [st |-> "free", family |-> 0, backlog |-> 0]

IsSocket(socks, s) == s \in SockHandles /\ socks[s].st # "free"

(* closesocket(s): releases a handle that names a socket of the process;   *)
(* fails with WSAENOTSOCK, changing nothing, for any other value.          *)
closesocket(socks, s) ==
    IF IsSocket(socks, s)
    THEN [ret |-> 0, err |-> 0, sockets |-> [socks EXCEPT ![s] = FreeSock]]
    ELSE [ret |-> 0 - 1, err |-> WSAENOTSOCK, sockets |-> socks]

(* --------------------------- the listener ------------------------------ *)
(* heap_alloc_zero: every field of the block is zero.                      *)
ZeroListener ==
    [magic |-> 0, type |-> 0, binding |-> 0, state |-> 0, socket |-> 0, prop |-> << >>]

(* alloc_listener after a successful heap_alloc_zero.                      *)
alloc_listener ==
    [ZeroListener EXCEPT !.magic = LISTENER_MAGIC,
                         !.prop = prop_init(listener_props, PropCount)]

(* reset_listener: the fields afterwards, and the socket layer's answer.   *)
reset_listener(l, socks) ==
    [listener |-> [l EXCEPT !.socket = INVALID_SOCKET, !.state = WS_LISTENER_STATE_CREATED],
     closed |-> closesocket(socks, l.socket)]

(* close_listener without its own assignment of the state. *)
close_listener_reset_only(l, socks) == reset_listener(l, socks)

(* close_listener: reset_listener, then state = CLOSED.                    *)
close_listener(l, socks) ==
    LET r == reset_listener(l, socks)
    IN  [r EXCEPT !.listener.state = WS_LISTENER_STATE_CLOSED]

(* An external call of an operation, for the histories. *)
Ev(call, arg) == [call |-> call, arg |-> arg]

(* free_listener: reset_listener, DeleteCriticalSection, heap_free.        *)
free_listener(l, socks) ==
    LET r == reset_listener(l, socks)
    IN  [sockets |-> r.closed.sockets,
         trace |-> << Ev("closesocket", l.socket), Ev("DeleteCriticalSection", 0),
                      Ev("heap_free", 0) >>]

(* The loop of create_listener without its test of hr: it goes on after a *)
(* failed override, and returns the first error.                           *)
RECURSIVE apply_properties_goes_on(_, _, _, _)
apply_properties_goes_on(prop, properties, count, i) ==
    IF i > count
    THEN [hr |-> S_OK, prop |-> prop, calls |-> count]
    ELSE LET r == prop_set(prop, PropCount, properties[i].id, properties[i].value,
                           properties[i].size)
             rest == apply_properties_goes_on(r.prop, properties, count, i + 1)
         IN  [hr |-> IF r.hr # S_OK THEN r.hr ELSE rest.hr,
              prop |-> rest.prop, calls |-> count]

(* The loop of create_listener from override i on: the table, the HRESULT  *)
(* and the number of prop_set calls made when it stops.                    *)
RECURSIVE apply_properties(_, _, _, _)
apply_properties(prop, properties, count, i) ==
    IF i > count
    THEN [hr |-> S_OK, prop |-> prop, calls |-> count]
    ELSE LET r == prop_set(prop, PropCount, properties[i].id, properties[i].value,
                           properties[i].size)
         IN  IF r.hr # S_OK
             THEN [hr |-> r.hr, prop |-> r.prop, calls |-> i]
             ELSE apply_properties(r.prop, properties, count, i + 1)

(* create_listener; allocOk is the outcome of heap_alloc_zero.  The result *)
(* holds the HRESULT, whether *ret was written and with what, the socket   *)
(* table afterwards and the external calls made, in order.                 *)
create_listener(type, binding, properties, count, allocOk, socks) ==
    IF ~allocOk
    THEN [hr |-> E_OUTOFMEMORY, ret |-> FALSE, listener |-> ZeroListener,
          sockets |-> socks, trace |-> << Ev("heap_alloc_zero", 0) >>]
    ELSE LET l0 == alloc_listener
             a  == apply_properties(l0.prop, properties, count, 1)
             t0 == << Ev("heap_alloc_zero", 1), Ev("InitializeCriticalSection", 0) >>
                   \o [k \in 1..a.calls |-> Ev("prop_set", k)]
         IN  IF a.hr # S_OK
             THEN LET f == free_listener([l0 EXCEPT !.prop = a.prop], socks)
                  IN  [hr |-> a.hr, ret |-> FALSE, listener |-> ZeroListener,
                       sockets |-> f.sockets, trace |-> t0 \o f.trace]
             ELSE [hr |-> S_OK, ret |-> TRUE,
                   listener |-> [l0 EXCEPT !.prop = a.prop, !.type = type,
                                           !.binding = binding,
                                           !.socket = INVALID_SOCKET],
                   sockets |-> socks, trace |-> t0]

(* ------------------------- inputs of the calls ------------------------- *)
ChannelTypes == {WS_CHANNEL_TYPE_DUPLEX_SESSION, WS_CHANNEL_TYPE_REQUEST}
ChannelBindings == {WS_TCP_CHANNEL_BINDING, WS_UDP_CHANNEL_BINDING}
\* A writable fixed-size id, a read-only one, a variable-size one, one out of range.
OverrideIds == {WS_LISTENER_PROPERTY_LISTEN_BACKLOG, WS_LISTENER_PROPERTY_STATE,
                WS_LISTENER_PROPERTY_MULTICAST_INTERFACES, PropCount}
OverrideSizes == {0, SIZEOF_ULONG}
\* Override values are not zero, the bytes a slot holds before any write.
Overrides == [id : OverrideIds, value : 1..MaxVal, size : OverrideSizes]
OverrideLists == UNION {[1..n -> Overrides] : n \in 0..MaxOverrides}

NoCreate == [phase |-> "idle", type |-> 0, binding |-> 0, properties |-> << >>,
             handle |-> FALSE, hr |-> S_OK, written |-> FALSE, trace |-> << >>]
CreateDone == [NoCreate EXCEPT !.phase = "done"]

(* The bytes of the last override of id in a list, zeros when there is none. *)
LastWritten(properties, id) ==
    LET idx == {i \in 1..Len(properties) : properties[i].id = id}
    IN  IF idx = {} THEN [value |-> 0, size |-> listener_props[id + 1].size]
        ELSE LET last == CHOOSE i \in idx : \A j \in idx : j <= i
             IN  [value |-> IF properties[last].size = 0 THEN 0 ELSE properties[last].value,
                  size |-> properties[last].size]

(* WsCreateListener without its test of the channel binding. *)
WsCreateListener_any_binding(type, binding, properties, handle, allocOk) ==
    /\ create.phase = "idle"
    /\ LET call == [NoCreate EXCEPT !.phase = "returned", !.type = type,
                                    !.binding = binding, !.properties = properties,
                                    !.handle = handle]
       IN  IF ~handle
           THEN /\ create' = [call EXCEPT !.hr = E_INVALIDARG]
                /\ UNCHANGED << heap, listener, cs, sockets, lastSet >>
           ELSE IF type # WS_CHANNEL_TYPE_DUPLEX_SESSION
           THEN /\ create' = [call EXCEPT !.hr = E_NOTIMPL]
                /\ UNCHANGED << heap, listener, cs, sockets, lastSet >>
           ELSE LET r == create_listener(type, binding, properties, Len(properties),
                                         allocOk, sockets)
                IN  /\ create' = [call EXCEPT !.hr = r.hr, !.written = r.ret,
                                              !.trace = r.trace]
                    /\ sockets' = r.sockets
                    /\ IF r.hr = S_OK
                       THEN /\ heap' = "live"
                            /\ listener' = r.listener
                            /\ cs' = [valid |-> TRUE, inside |-> {}]
                            /\ lastSet' = [id \in 0..(PropCount - 1) |->
                                              LastWritten(properties, id)]
                       ELSE UNCHANGED << heap, listener, cs, lastSet >>
    /\ UNCHANGED << th, winsock, ghost >>

(* ----------------------------- WsCreateListener ------------------------ *)
(* handle is TRUE for a non-null handle slot.  The call runs to its return; *)
(* the result stays in `create' until CreateReturn hands it to the caller. *)
WsCreateListener(type, binding, properties, handle, allocOk) ==
    /\ create.phase = "idle"
    /\ LET call == [NoCreate EXCEPT !.phase = "returned", !.type = type,
                                    !.binding = binding, !.properties = properties,
                                    !.handle = handle]
       IN  IF ~handle
           THEN /\ create' = [call EXCEPT !.hr = E_INVALIDARG]
                /\ UNCHANGED << heap, listener, cs, sockets, lastSet >>
           ELSE IF type # WS_CHANNEL_TYPE_DUPLEX_SESSION \/ binding # WS_TCP_CHANNEL_BINDING
           THEN /\ create' = [call EXCEPT !.hr = E_NOTIMPL]
                /\ UNCHANGED << heap, listener, cs, sockets, lastSet >>
           ELSE LET r == create_listener(type, binding, properties, Len(properties),
                                         allocOk, sockets)
                IN  /\ create' = [call EXCEPT !.hr = r.hr, !.written = r.ret,
                                              !.trace = r.trace]
                    /\ sockets' = r.sockets
                    /\ IF r.hr = S_OK
                       THEN /\ heap' = "live"
                            /\ listener' = r.listener
                            /\ cs' = [valid |-> TRUE, inside |-> {}]
                            /\ lastSet' = [id \in 0..(PropCount - 1) |->
                                              LastWritten(properties, id)]
                       ELSE UNCHANGED << heap, listener, cs, lastSet >>
    /\ UNCHANGED << th, winsock, ghost >>

(* The caller takes the result: the handle is published on success.        *)
CreateReturn ==
    /\ create.phase = "returned"
    /\ create' = IF create.hr = S_OK THEN CreateDone ELSE NoCreate
    /\ UNCHANGED << heap, listener, cs, th, sockets, winsock, lastSet, ghost >>

(* ------------------------------ threads -------------------------------- *)
NoOut == [written |-> FALSE, value |-> 0]

Idle == [pc |-> "idle", op |-> "none", hr |-> S_OK, id |-> 0, value |-> 0, size |-> 0,
         buf |-> FALSE, out |-> NoOut, pre |-> ZeroListener, after |-> FALSE,
         trace |-> << >>, host |-> "none", family |-> 0, err |-> 0, res |-> << >>]

Ops == {"open", "close", "get", "set", "free"}

PropIds == {WS_LISTENER_PROPERTY_LISTEN_BACKLOG, WS_LISTENER_PROPERTY_STATE,
            WS_LISTENER_PROPERTY_CHANNEL_TYPE, WS_LISTENER_PROPERTY_CHANNEL_BINDING,
            WS_LISTENER_PROPERTY_MULTICAST_INTERFACES,
            WS_LISTENER_PROPERTY_CUSTOM_LISTENER_INSTANCE, PropCount}
ArgSizes == {0, SIZEOF_ULONG, SIZEOF_PTR}
ArgValues == Vals \cup {NULL}

(* A counter of the histories: 0, 1, and 2 for twice or more. *)
Inc(n) == IF n < 2 THEN n + 1 ELSE n

(* A step of thread t, in function fn, that reads or writes the fields of  *)
(* the block: it is a use after free when the block has been released, and *)
(* fn is noted when t is not inside the critical section.                  *)
Touch(g, t, fn) ==
    [g EXCEPT !.uaf = @ \/ heap = "freed",
              !.unlocked = IF t \in cs.inside THEN @ ELSE @ \cup {fn}]

(* A step that enters or leaves the critical section of the block.         *)
TouchLock(g) == [g EXCEPT !.uaf = @ \/ heap = "freed"]

(* The values a read of listener->magic can give: the field of a live      *)
(* block; anything once the block is freed (zero as WsFreeListener left    *)
(* it, or the tag of a listener since allocated at the same address).      *)
MagicRead == IF heap = "live" THEN {listener.magic} ELSE {0, LISTENER_MAGIC}

(* WsOpenListener called with a null url by an idle thread: line 308      *)
(* returns E_INVALIDARG before the lock is taken.  For the histories: pre  *)
(* holds the tag and the state as the call finds them.                     *)
OpenNullUrl(t) ==
    /\ create.phase = "done"
    /\ th[t].pc = "idle"
    /\ th' = [th EXCEPT ![t] =
                 [Idle EXCEPT !.pc = "ret", !.op = "open", !.hr = E_INVALIDARG,
                              !.pre = [ZeroListener EXCEPT !.magic = listener.magic,
                                                           !.state = listener.state]]]
    /\ UNCHANGED << heap, listener, cs, create, sockets, winsock, lastSet, ghost >>

(* A return that happens before the lock is taken.                         *)
Return(t) ==
    /\ th[t].pc = "ret"
    /\ th' = [th EXCEPT ![t] = Idle]
    /\ UNCHANGED << heap, listener, cs, create, sockets, winsock, lastSet, ghost >>

(* The call of public function o by an idle thread, followed up to its     *)
(* EnterCriticalSection, where it may have to wait.                        *)
Call(t, o) ==
    /\ create.phase = "done"
    /\ th[t].pc = "idle"
    /\ th' = [th EXCEPT ![t].pc = "enter", ![t].op = o]
    /\ UNCHANGED << heap, listener, cs, create, sockets, winsock, lastSet, ghost >>

(* A thread that is not in a call, or is at the EnterCriticalSection of o. *)
CanEnter(t, o) == th[t].pc = "idle" \/ (th[t].pc = "enter" /\ th[t].op = o)

(* LeaveCriticalSection that gives the lock back only when hr is S_OK.     *)
LeaveCriticalSection_on_success(t) ==
    /\ th[t].pc = "leave"
    /\ cs' = IF th[t].hr = S_OK THEN [cs EXCEPT !.inside = @ \ {t}] ELSE cs
    /\ th' = [th EXCEPT ![t] = IF th[t].op = "free" /\ th[t].hr = S_OK
                               THEN [Idle EXCEPT !.pc = "free_listener", !.op = "free"]
                               ELSE Idle]
    /\ ghost' = TouchLock(ghost)
    /\ UNCHANGED << heap, listener, create, sockets, winsock, lastSet >>

(* A public function that starts without its EnterCriticalSection. *)
EnterCriticalSection_missing(t, o) ==
    /\ create.phase = "done"
    /\ CanEnter(t, o)
    /\ heap = "live"
    /\ th' = [th EXCEPT ![t].pc = "body", ![t].op = o, ![t].pre = listener]
    /\ UNCHANGED << heap, listener, cs, create, sockets, winsock, lastSet, ghost >>

(* The call of public function o on the published handle by an idle       *)
(* thread, or by one that waits at it, up to the return of its            *)
(* EnterCriticalSection( &listener->cs ): the call waits while another     *)
(* thread is inside.  For the histories: pre  *)
(* is the block as the call finds it, after is TRUE for a call made when   *)
(* WsFreeListener has released the block.  On a deleted and                *)
(* freed critical section the call is undefined: it may never return, or   *)
(* return at once whoever is inside.  The first such call that returns is  *)
(* followed; the later ones are taken never to return.                     *)
EnterCriticalSection(t, o) ==
    /\ create.phase = "done"
    /\ CanEnter(t, o)
    /\ IF heap = "live" /\ cs.valid THEN cs.inside = {} ELSE ~ghost.stale
    /\ cs' = [cs EXCEPT !.inside = @ \cup {t}]
    /\ th' = [th EXCEPT ![t].pc = "body", ![t].op = o, ![t].pre = listener,
                        ![t].after = (heap = "freed")]
    /\ ghost' = IF heap = "live" /\ cs.valid THEN ghost
                ELSE [TouchLock(ghost) EXCEPT !.stale = TRUE]
    /\ UNCHANGED << heap, listener, create, sockets, winsock, lastSet >>

(* LeaveCriticalSection( &listener->cs ) and the return that follows it;   *)
(* WsFreeListener goes on to free_listener when it cleared the tag.        *)
LeaveCriticalSection(t) ==
    /\ th[t].pc = "leave"
    /\ cs' = [cs EXCEPT !.inside = @ \ {t}]
    /\ th' = [th EXCEPT ![t] = IF th[t].op = "free" /\ th[t].hr = S_OK
                               THEN [Idle EXCEPT !.pc = "free_listener", !.op = "free"]
                               ELSE Idle]
    /\ ghost' = TouchLock(ghost)
    /\ UNCHANGED << heap, listener, create, sockets, winsock, lastSet >>

(* ------------------------------ WsCloseListener ------------------------ *)
WsCloseListener(t) ==
    /\ th[t].pc = "body" /\ th[t].op = "close"
    /\ \E magic \in MagicRead :
         IF magic # LISTENER_MAGIC
         THEN /\ th' = [th EXCEPT ![t].pc = "leave", ![t].hr = E_INVALIDARG]
              /\ UNCHANGED << listener, sockets >>
         ELSE LET r == close_listener(listener, sockets)
              IN  /\ listener' = r.listener
                  /\ sockets' = r.closed.sockets
                  /\ th' = [th EXCEPT ![t].pc = "leave", ![t].hr = S_OK,
                                      ![t].trace = Append(@, Ev("closesocket", listener.socket))]
    /\ ghost' = Touch(ghost, t, "WsCloseListener")
    /\ UNCHANGED << heap, cs, create, winsock, lastSet >>

(* ------------------------------ WsFreeListener ------------------------- *)
(* Under the lock: the tag check and listener->magic = 0.  hr is S_OK when *)
(* the tag was valid and the call goes on to free_listener (the function   *)
(* itself returns nothing).                                                *)
WsFreeListener(t) ==
    /\ th[t].pc = "body" /\ th[t].op = "free"
    /\ \E magic \in MagicRead :
         IF magic # LISTENER_MAGIC
         THEN /\ th' = [th EXCEPT ![t].pc = "leave", ![t].hr = E_INVALIDARG]
              /\ ghost' = Touch(ghost, t, "WsFreeListener")
              /\ UNCHANGED listener
         ELSE /\ listener' = [listener EXCEPT !.magic = 0]
              /\ th' = [th EXCEPT ![t].pc = "leave", ![t].hr = S_OK]
              /\ ghost' = [Touch(ghost, t, "WsFreeListener") EXCEPT !.magicClears = Inc(@)]
    /\ UNCHANGED << heap, cs, create, sockets, winsock, lastSet >>

(* WsFreeListener after its LeaveCriticalSection: free_listener, which is *)
(* reset_listener, DeleteCriticalSection and heap_free, outside the lock.  *)
FreeListener(t) ==
    /\ th[t].pc = "free_listener"
    /\ LET f == free_listener(listener, sockets)
           r == reset_listener(listener, sockets)
       IN  /\ listener' = r.listener
           /\ sockets' = f.sockets
    /\ cs' = [cs EXCEPT !.valid = FALSE]
    /\ heap' = "freed"
    /\ ghost' = [Touch(ghost, t, "free_listener") EXCEPT !.csDeletes = Inc(@), !.heapFrees = Inc(@)]
    /\ th' = [th EXCEPT ![t] = Idle]
    /\ UNCHANGED << create, winsock, lastSet >>

(* get_property that copies the state out before it tests the size.       *)
get_property_copies_first(l, id, buf, size) ==
    IF id = WS_LISTENER_PROPERTY_STATE
    THEN IF ~buf THEN [hr |-> E_INVALIDARG, written |-> FALSE, value |-> 0]
         ELSE IF size # SIZEOF_ULONG
         THEN [hr |-> E_INVALIDARG, written |-> TRUE, value |-> l.state]
         ELSE [hr |-> S_OK, written |-> TRUE, value |-> l.state]
    ELSE IF id = WS_LISTENER_PROPERTY_CHANNEL_TYPE
    THEN IF ~buf \/ size # SIZEOF_ULONG
         THEN [hr |-> E_INVALIDARG, written |-> FALSE, value |-> 0]
         ELSE [hr |-> S_OK, written |-> TRUE, value |-> l.type]
    ELSE IF id = WS_LISTENER_PROPERTY_CHANNEL_BINDING
    THEN IF ~buf \/ size # SIZEOF_ULONG
         THEN [hr |-> E_INVALIDARG, written |-> FALSE, value |-> 0]
         ELSE [hr |-> S_OK, written |-> TRUE, value |-> l.binding]
    ELSE prop_get(l.prop, PropCount, id, buf, size)

(* get_property that hands prop_get the stored size, not the caller's. *)
get_property_any_size(l, id, buf, size) ==
    IF id = WS_LISTENER_PROPERTY_STATE
    THEN IF ~buf \/ size # SIZEOF_ULONG
         THEN [hr |-> E_INVALIDARG, written |-> FALSE, value |-> 0]
         ELSE [hr |-> S_OK, written |-> TRUE, value |-> l.state]
    ELSE IF id = WS_LISTENER_PROPERTY_CHANNEL_TYPE
    THEN IF ~buf \/ size # SIZEOF_ULONG
         THEN [hr |-> E_INVALIDARG, written |-> FALSE, value |-> 0]
         ELSE [hr |-> S_OK, written |-> TRUE, value |-> l.type]
    ELSE IF id = WS_LISTENER_PROPERTY_CHANNEL_BINDING
    THEN IF ~buf \/ size # SIZEOF_ULONG
         THEN [hr |-> E_INVALIDARG, written |-> FALSE, value |-> 0]
         ELSE [hr |-> S_OK, written |-> TRUE, value |-> l.binding]
    ELSE IF id >= PropCount THEN prop_get(l.prop, PropCount, id, buf, size)
    ELSE prop_get(l.prop, PropCount, id, buf, l.prop[id + 1].size)

(* --------------------------- WsGetListenerProperty --------------------- *)
(* The three ids served from the fields of the listener, and prop_get for  *)
(* every other id.  buf is TRUE for a non-null buffer.                     *)
get_property(l, id, buf, size) ==
    IF id = WS_LISTENER_PROPERTY_STATE
    THEN IF ~buf \/ size # SIZEOF_ULONG
         THEN [hr |-> E_INVALIDARG, written |-> FALSE, value |-> 0]
         ELSE [hr |-> S_OK, written |-> TRUE, value |-> l.state]
    ELSE IF id = WS_LISTENER_PROPERTY_CHANNEL_TYPE
    THEN IF ~buf \/ size # SIZEOF_ULONG
         THEN [hr |-> E_INVALIDARG, written |-> FALSE, value |-> 0]
         ELSE [hr |-> S_OK, written |-> TRUE, value |-> l.type]
    ELSE IF id = WS_LISTENER_PROPERTY_CHANNEL_BINDING
    THEN IF ~buf \/ size # SIZEOF_ULONG
         THEN [hr |-> E_INVALIDARG, written |-> FALSE, value |-> 0]
         ELSE [hr |-> S_OK, written |-> TRUE, value |-> l.binding]
    ELSE prop_get(l.prop, PropCount, id, buf, size)

WsGetListenerProperty(t, id, buf, size) ==
    /\ th[t].pc = "body" /\ th[t].op = "get"
    /\ \E magic \in MagicRead :
         LET r == get_property(listener, id, buf, size)
             a == [th[t] EXCEPT !.pc = "leave", !.id = id, !.buf = buf, !.size = size]
         IN  th' = [th EXCEPT ![t] =
                       IF magic # LISTENER_MAGIC
                       THEN [a EXCEPT !.hr = E_INVALIDARG]
                       ELSE [a EXCEPT !.hr = r.hr,
                                      !.out = [written |-> r.written, value |-> r.value]]]
    /\ ghost' = Touch(ghost, t, "WsGetListenerProperty")
    /\ UNCHANGED << heap, listener, cs, create, sockets, winsock, lastSet >>

(* --------------------------- WsSetListenerProperty --------------------- *)
set_property(l, id, value, size) == prop_set(l.prop, PropCount, id, value, size)

WsSetListenerProperty(t, id, value, size) ==
    /\ th[t].pc = "body" /\ th[t].op = "set"
    /\ \E magic \in MagicRead :
         LET r == set_property(listener, id, value, size)
             a == [th[t] EXCEPT !.pc = "leave", !.id = id, !.value = value, !.size = size]
         IN  IF magic # LISTENER_MAGIC
             THEN /\ th' = [th EXCEPT ![t] = [a EXCEPT !.hr = E_INVALIDARG]]
                  /\ UNCHANGED << listener, lastSet >>
             ELSE /\ th' = [th EXCEPT ![t] = [a EXCEPT !.hr = r.hr]]
                  /\ listener' = [listener EXCEPT !.prop = r.prop]
                  /\ lastSet' = IF r.hr = S_OK
                                THEN [lastSet EXCEPT ![id] =
                                         [value |-> IF size = 0 THEN 0 ELSE value,
                                          size |-> size]]
                                ELSE lastSet
    /\ ghost' = Touch(ghost, t, "WsSetListenerProperty")
    /\ UNCHANGED << heap, cs, create, sockets, winsock >>

(* ------------------------------ WsOpenListener ------------------------- *)
Families == {AF_INET, AF_INET6, AF_NETBIOS}
AddrLists == UNION {[1..n -> Families] : n \in 0..MaxAddrs}

(* The while loop of resolve_hostname without its test of the family: it  *)
(* stops at the first entry.                                               *)
RECURSIVE first_inet_any_family(_, _)
first_inet_any_family(res, i) == IF i > Len(res) THEN 0 ELSE i

(* The while loop of resolve_hostname: the first entry from i on whose     *)
(* family is AF_INET or AF_INET6, 0 when the list ends before one.         *)
RECURSIVE first_inet(_, _)
first_inet(res, i) ==
    IF i > Len(res) THEN 0
    ELSE IF res[i] # AF_INET /\ res[i] # AF_INET6 THEN first_inet(res, i + 1)
    ELSE i

(* resolve_hostname: err is the error of GetAddrInfoW (0 when it succeeds) *)
(* and res the list it returns, as address families.                       *)
resolve_hostname(err, res) ==
    IF err # 0 THEN [hr |-> HRESULT_FROM_WIN32(err), family |-> 0]
    ELSE LET info == first_inet(res, 1)
         IN  IF info # 0 THEN [hr |-> S_OK, family |-> res[info]]
             ELSE [hr |-> WS_E_ADDRESS_NOT_AVAILABLE, family |-> 0]

(* OpenCheck with a state check that turns away an open listener only. *)
OpenCheck_reopens_closed(t) ==
    /\ th[t].pc = "body" /\ th[t].op = "open"
    /\ \E magic \in MagicRead :
         th' = [th EXCEPT ![t].pc = IF magic = LISTENER_MAGIC
                                       /\ listener.state # WS_LISTENER_STATE_OPEN
                                    THEN "parse_url" ELSE "leave",
                          ![t].hr = IF magic # LISTENER_MAGIC THEN E_INVALIDARG
                                    ELSE IF listener.state = WS_LISTENER_STATE_OPEN
                                    THEN WS_E_INVALID_OPERATION ELSE S_OK]
    /\ ghost' = Touch(ghost, t, "WsOpenListener")
    /\ UNCHANGED << heap, listener, cs, create, sockets, winsock, lastSet >>

(* WsOpenListener under the lock: the tag check and the state check.       *)
OpenCheck(t) ==
    /\ th[t].pc = "body" /\ th[t].op = "open"
    /\ \E magic \in MagicRead :
         th' = [th EXCEPT ![t].pc = IF magic = LISTENER_MAGIC
                                       /\ listener.state = WS_LISTENER_STATE_CREATED
                                    THEN "parse_url" ELSE "leave",
                          ![t].hr = IF magic # LISTENER_MAGIC THEN E_INVALIDARG
                                    ELSE IF listener.state # WS_LISTENER_STATE_CREATED
                                    THEN WS_E_INVALID_OPERATION ELSE S_OK]
    /\ ghost' = Touch(ghost, t, "WsOpenListener")
    /\ UNCHANGED << heap, listener, cs, create, sockets, winsock, lastSet >>

(* parse_url: hr is the outcome of WsCreateHeap, WsDecodeUrl, heap_alloc;  *)
(* host is "any" for the hosts + and *, for which *host is NULL.           *)
parse_url(t, hr, host) ==
    /\ th[t].pc = "parse_url"
    /\ th' = [th EXCEPT ![t].pc = IF hr = S_OK THEN "winsock_init" ELSE "leave",
                        ![t].hr = hr,
                        ![t].host = IF hr = S_OK THEN host ELSE "none",
                        ![t].trace = Append(@, Ev("WsDecodeUrl", 0))]
    /\ UNCHANGED << heap, listener, cs, create, sockets, winsock, lastSet, ghost >>

(* winsock_startup: started is the outcome of WSAStartup.                  *)
winsock_startup(w, started) ==
    [once |-> "done", loaded |-> w.loaded \/ started, startups |-> Inc(w.startups)]

(* InitOnceExecuteOnce without its once: every caller runs the callback.   *)
InitOnceExecuteOnce_every_time(t) ==
    /\ th[t].pc = "winsock_init"
    /\ winsock' = [winsock EXCEPT !.once = "running"]
    /\ th' = [th EXCEPT ![t].pc = "winsock_startup",
                        ![t].trace = Append(@, Ev("winsock_init", 0))]
    /\ UNCHANGED << heap, listener, cs, create, sockets, lastSet, ghost >>

(* winsock_init, first half: InitOnceExecuteOnce( &once, winsock_startup ) *)
(* returns at once when the initialisation is done, waits while another    *)
(* thread runs the callback, and runs the callback otherwise.              *)
InitOnceExecuteOnce(t) ==
    /\ th[t].pc = "winsock_init"
    /\ winsock.once # "running"
    /\ winsock' = IF winsock.once = "done" THEN winsock
                  ELSE [winsock EXCEPT !.once = "running"]
    /\ th' = [th EXCEPT ![t].pc = IF winsock.once = "done" THEN "resolve"
                                  ELSE "winsock_startup",
                        ![t].trace = Append(@, Ev("winsock_init", 0))]
    /\ UNCHANGED << heap, listener, cs, create, sockets, lastSet, ghost >>

(* winsock_init, second half: the callback winsock_startup runs WSAStartup *)
(* and returns TRUE, which completes the initialisation whatever started.  *)
WSAStartup(t, started) ==
    /\ th[t].pc = "winsock_startup"
    /\ winsock' = winsock_startup(winsock, started)
    /\ th' = [th EXCEPT ![t].pc = "resolve"]
    /\ UNCHANGED << heap, listener, cs, create, sockets, lastSet, ghost >>

(* WsOpenListener on another listener of the process, from its call to    *)
(* its winsock_init: that listener has its own lock, state and socket,     *)
(* and shares only the INIT_ONCE and winsock_loaded with this one.         *)
OtherListenerOpen(t) ==
    /\ th[t].pc = "idle"
    /\ th' = [th EXCEPT ![t] = [Idle EXCEPT !.pc = "winsock_init", !.op = "other"]]
    /\ UNCHANGED << heap, listener, cs, create, sockets, winsock, lastSet, ghost >>

(* The rest of that call, from resolve_hostname on, up to its return.      *)
OtherListenerResolve(t, err, res) ==
    /\ th[t].pc = "resolve" /\ th[t].op = "other"
    /\ winsock.loaded \/ err = WSANOTINITIALISED
    /\ LET r == resolve_hostname(err, res)
       IN  th' = [th EXCEPT ![t].pc = "ret",
                            ![t].hr = r.hr,
                            ![t].family = r.family,
                            ![t].err = err,
                            ![t].res = IF err = 0 THEN res ELSE << >>,
                            ![t].trace = Append(@, Ev("GetAddrInfoW", 0))]
    /\ UNCHANGED << heap, listener, cs, create, sockets, winsock, lastSet, ghost >>

(* resolve_hostname and the test of its result in open_listener.  Without  *)
(* a started winsock GetAddrInfoW fails with WSANOTINITIALISED.            *)
OpenResolve(t, err, res) ==
    /\ th[t].pc = "resolve" /\ th[t].op = "open"
    /\ winsock.loaded \/ err = WSANOTINITIALISED
    /\ LET r == resolve_hostname(err, res)
       IN  th' = [th EXCEPT ![t].pc = IF r.hr = S_OK THEN "socket" ELSE "leave",
                            ![t].hr = r.hr,
                            ![t].family = r.family,
                            ![t].err = err,
                            ![t].res = IF err = 0 THEN res ELSE << >>,
                            ![t].trace = Append(@, Ev("GetAddrInfoW", 0))]
    /\ UNCHANGED << heap, listener, cs, create, sockets, winsock, lastSet, ghost >>

(* listener->socket = socket( family, SOCK_STREAM, 0 ): the lowest free    *)
(* handle, or -1 (with WSAEMFILE) when ok is FALSE or no handle is free.   *)
OpenSocket(t, ok) ==
    /\ th[t].pc = "socket"
    /\ LET free == {h \in SockHandles : sockets[h].st = "free"}
       IN  IF ok /\ free # {}
           THEN LET h == CHOOSE x \in free : \A y \in free : x <= y
                IN  /\ sockets' = [sockets EXCEPT ![h] =
                                      [st |-> "created", family |-> th[t].family,
                                       backlog |-> 0]]
                    /\ listener' = [listener EXCEPT !.socket = h]
                    /\ th' = [th EXCEPT ![t].pc = "bind",
                                        ![t].trace = Append(@, Ev("socket", h))]
           ELSE /\ listener' = [listener EXCEPT !.socket = INVALID_SOCKET]
                /\ th' = [th EXCEPT ![t].pc = "leave",
                                    ![t].hr = HRESULT_FROM_WIN32(WSAEMFILE),
                                    ![t].trace = Append(@, Ev("socket", INVALID_SOCKET))]
                /\ UNCHANGED sockets
    /\ ghost' = Touch(ghost, t, "open_listener")
    /\ UNCHANGED << heap, cs, create, winsock, lastSet >>

(* The error path of bind and listen without listener->socket = -1.        *)
OpenFail_keeps_handle(t, call, err) ==
    LET c == closesocket(sockets, listener.socket)
    IN  /\ sockets' = c.sockets
        /\ listener' = listener
        /\ th' = [th EXCEPT ![t].pc = "leave",
                            ![t].hr = HRESULT_FROM_WIN32(IF c.ret = 0 THEN err ELSE c.err),
                            ![t].trace = @ \o << Ev(call, listener.socket),
                                                 Ev("closesocket", listener.socket) >>]

(* The error path of bind and listen without the closesocket. *)
OpenFail_leaks(t, call, err) ==
    /\ sockets' = sockets
    /\ listener' = [listener EXCEPT !.socket = INVALID_SOCKET]
    /\ th' = [th EXCEPT ![t].pc = "leave",
                        ![t].hr = HRESULT_FROM_WIN32(err),
                        ![t].trace = @ \o << Ev(call, listener.socket) >>]

(* The error path of bind and listen: closesocket, socket = -1 and the     *)
(* HRESULT of WSAGetLastError(), read after closesocket has run: err is    *)
(* the error of the failed call, replaced by closesocket's when it fails.  *)
OpenFail(t, call, err) ==
    LET c == closesocket(sockets, listener.socket)
    IN  /\ sockets' = c.sockets
        /\ listener' = [listener EXCEPT !.socket = INVALID_SOCKET]
        /\ th' = [th EXCEPT ![t].pc = "leave",
                            ![t].hr = HRESULT_FROM_WIN32(IF c.ret = 0 THEN err ELSE c.err),
                            ![t].trace = @ \o << Ev(call, listener.socket),
                                                 Ev("closesocket", listener.socket) >>]

(* bind( listener->socket, addr, addr_len ): fails on a handle that is no  *)
(* fresh socket, and when ok is FALSE (the address is in use).             *)
OpenBind(t, ok) ==
    /\ th[t].pc = "bind"
    /\ LET s == listener.socket
       IN  IF ~(IsSocket(sockets, s) /\ sockets[s].st = "created")
           THEN OpenFail(t, "bind", WSAENOTSOCK)
           ELSE IF ~ok
           THEN OpenFail(t, "bind", WSAEADDRINUSE)
           ELSE /\ sockets' = [sockets EXCEPT ![s].st = "bound"]
                /\ th' = [th EXCEPT ![t].pc = "listen",
                                    ![t].trace = Append(@, Ev("bind", s))]
                /\ UNCHANGED listener
    /\ ghost' = Touch(ghost, t, "open_listener")
    /\ UNCHANGED << heap, cs, create, winsock, lastSet >>

(* listen with the value of WS_LISTENER_PROPERTY_LISTEN_BACKLOG for backlog. *)
OpenListen_configured_backlog(t, ok) ==
    /\ th[t].pc = "listen"
    /\ LET s == listener.socket
           backlog == listener.prop[WS_LISTENER_PROPERTY_LISTEN_BACKLOG + 1].value
       IN  IF ~(IsSocket(sockets, s) /\ sockets[s].st = "bound")
           THEN OpenFail(t, "listen", WSAENOTSOCK)
           ELSE IF ~ok
           THEN OpenFail(t, "listen", WSAEADDRINUSE)
           ELSE /\ sockets' = [sockets EXCEPT ![s].st = "listening", ![s].backlog = backlog]
                /\ listener' = [listener EXCEPT !.state = WS_LISTENER_STATE_OPEN]
                /\ th' = [th EXCEPT ![t].pc = "leave", ![t].hr = S_OK,
                                    ![t].trace = Append(@, Ev("listen", s))]
    /\ ghost' = Touch(ghost, t, "open_listener")
    /\ UNCHANGED << heap, cs, create, winsock, lastSet >>

(* listen( listener->socket, 0 ) and, when it succeeds, state = OPEN.      *)
OpenListen(t, ok) ==
    /\ th[t].pc = "listen"
    /\ LET s == listener.socket
       IN  IF ~(IsSocket(sockets, s) /\ sockets[s].st = "bound")
           THEN OpenFail(t, "listen", WSAENOTSOCK)
           ELSE IF ~ok
           THEN OpenFail(t, "listen", WSAEADDRINUSE)
           ELSE /\ sockets' = [sockets EXCEPT ![s].st = "listening", ![s].backlog = 0]
                /\ listener' = [listener EXCEPT !.state = WS_LISTENER_STATE_OPEN]
                /\ th' = [th EXCEPT ![t].pc = "leave", ![t].hr = S_OK,
                                    ![t].trace = Append(@, Ev("listen", s))]
    /\ ghost' = Touch(ghost, t, "open_listener")
    /\ UNCHANGED << heap, cs, create, winsock, lastSet >>

(* ---------------------------- the specification ------------------------ *)
Init ==
    /\ heap = "none"
    /\ listener = ZeroListener
    /\ cs = [valid |-> FALSE, inside |-> {}]
    /\ create = NoCreate
    /\ th = [t \in Threads |-> Idle]
    /\ sockets = [h \in SockHandles |-> FreeSock]
    /\ winsock = [once |-> "uninit", loaded |-> FALSE, startups |-> 0]
    /\ lastSet = [id \in 0..(PropCount - 1) |-> [value |-> 0, size |-> 0]]
    /\ ghost = [uaf |-> FALSE, magicClears |-> 0, csDeletes |-> 0, heapFrees |-> 0,
                stale |-> FALSE, unlocked |-> {}]

(* The steps of the calls, with the sets their inputs are drawn from.      *)
FirstOverride == << [id |-> WS_LISTENER_PROPERTY_LISTEN_BACKLOG, value |-> 1,
                      size |-> SIZEOF_ULONG] >>

Create(lists) ==
    \E type \in ChannelTypes, binding \in ChannelBindings, handle \in BOOLEAN,
       allocOk \in BOOLEAN :
       \* A call that fails before the loop of create_listener never reads its
       \* overrides: it is given the empty list and a list of one override.
       LET reads == /\ handle /\ allocOk
                    /\ type = WS_CHANNEL_TYPE_DUPLEX_SESSION
                    /\ binding = WS_TCP_CHANNEL_BINDING
       IN  \E properties \in IF reads THEN lists ELSE {<< >>, FirstOverride} :
              WsCreateListener(type, binding, properties, handle, allocOk)

Locking(t, ops) ==
    \/ \E o \in ops : EnterCriticalSection(t, o)
    \/ LeaveCriticalSection(t)

(* WsOpenListener with a null url: the call and its return.  The call      *)
(* reads and writes nothing that the threads share, so it is enough that   *)
(* one thread makes it, at any point of the calls of the others.           *)
NullUrl(t) ==
    \/ OpenNullUrl(t)
    \/ Return(t)

Free(t) ==
    \/ WsFreeListener(t)
    \/ FreeListener(t)

Open(t, hosts, lists) ==
    \/ OpenCheck(t)
    \/ \E hr \in {S_OK, WS_E_INVALID_FORMAT, E_OUTOFMEMORY}, host \in hosts :
          parse_url(t, hr, host)
    \/ InitOnceExecuteOnce(t)
    \/ \E started \in BOOLEAN : WSAStartup(t, started)
    \/ \E err \in {0, WSAHOST_NOT_FOUND, WSANOTINITIALISED}, res \in lists :
          OpenResolve(t, err, res)
    \/ \E ok \in BOOLEAN : OpenSocket(t, ok)
    \/ \E ok \in BOOLEAN : OpenBind(t, ok)
    \/ \E ok \in BOOLEAN : OpenListen(t, ok)

Property(t, ids, values, sizes, bufs) ==
    \/ \E id \in ids, buf \in bufs, size \in sizes : WsGetListenerProperty(t, id, buf, size)
    \/ \E id \in ids, value \in values, size \in sizes :
          WsSetListenerProperty(t, id, value, size)

(* Spec: NumThreads callers of every public function on one handle, with   *)
(* few inputs: one writable and one read-only property id, one value, one  *)
(* host and two answers of the resolver.                                   *)
ConcLists == {<< >>, FirstOverride,
              << [id |-> WS_LISTENER_PROPERTY_STATE, value |-> 1,
                  size |-> SIZEOF_ULONG] >>}
ConcIds == {WS_LISTENER_PROPERTY_LISTEN_BACKLOG, WS_LISTENER_PROPERTY_STATE}
ConcAddrLists == {<< >>, << AF_NETBIOS, AF_INET >>}

Next ==
    \/ Create(ConcLists)
    \/ CreateReturn
    \/ \E t \in Threads : Locking(t, Ops)
    \/ NullUrl(1)
    \/ \E t \in Threads : WsCloseListener(t)
    \/ \E t \in Threads : Free(t)
    \/ \E t \in Threads : Open(t, {"name"}, ConcAddrLists)
    \/ \E t \in Threads : Property(t, ConcIds, {1}, {SIZEOF_ULONG}, {TRUE})

Spec == Init /\ [][Next]_vars

(* SpecProps: one caller, every kind of property input.                    *)
PropLists == UNION {[1..n -> Overrides] : n \in 0..1}

NextProps ==
    \/ Create(PropLists)
    \/ CreateReturn
    \/ Locking(1, Ops)
    \/ NullUrl(1)
    \/ WsCloseListener(1)
    \/ Free(1)
    \/ Open(1, {"any", "name"}, AddrLists)
    \/ Property(1, PropIds, ArgValues, ArgSizes, BOOLEAN)

SpecProps == Init /\ [][NextProps]_vars

(* SpecCreate: WsCreateListener alone, with every list of overrides.       *)
NextCreate ==
    \/ Create(OverrideLists)
    \/ CreateReturn

SpecCreate == Init /\ [][NextCreate]_vars

(* SpecOnce: thread 1 opens this listener, the other threads open other   *)
(* listeners of the process, all through the one INIT_ONCE.                *)
OtherOpen(t) ==
    \/ OtherListenerOpen(t)
    \/ InitOnceExecuteOnce(t)
    \/ \E started \in BOOLEAN : WSAStartup(t, started)
    \/ \E err \in {0, WSAHOST_NOT_FOUND, WSANOTINITIALISED}, res \in ConcAddrLists :
          OtherListenerResolve(t, err, res)
    \/ Return(t)

NextOnce ==
    \/ Create({<< >>})
    \/ CreateReturn
    \/ Locking(1, {"open"})
    \/ NullUrl(1)
    \/ Open(1, {"name"}, ConcAddrLists)
    \/ \E t \in Threads \ {1} : OtherOpen(t)

SpecOnce == Init /\ [][NextOnce]_vars

(* SpecLive: callers of open, close and getProperty of the state on a     *)
(* live listener, each seen waiting for the lock.  A thread that can take  *)
(* a step of its call takes it in the end (the external calls return), and *)
(* a thread that waits for a lock that is free again and again gets it.    *)
LiveOps == {"open", "close", "get"}

Acquire(t) == th[t].pc = "enter" /\ EnterCriticalSection(t, th[t].op)

Body(t) ==
    \/ WsCloseListener(t)
    \/ Open(t, {"name"}, ConcAddrLists)
    \/ WsGetListenerProperty(t, WS_LISTENER_PROPERTY_STATE, TRUE, SIZEOF_ULONG)
    \/ LeaveCriticalSection(t)

NextLive ==
    \/ Create({<< >>})
    \/ CreateReturn
    \/ \E t \in Threads, o \in LiveOps : Call(t, o)
    \/ \E t \in Threads : Acquire(t)
    \/ \E t \in Threads : Body(t)

SpecLive ==
    /\ Init
    /\ [][NextLive]_vars
    /\ \A t \in Threads : WF_vars(Body(t)) /\ SF_vars(Acquire(t))

(* ------------------------------ properties ----------------------------- *)
(* Thread t has run the body of public function o on a listener whose tag  *)
(* was valid when it entered, and has not left the critical section yet.   *)
Finished(t, o) ==
    /\ th[t].pc = "leave"
    /\ th[t].op = o
    /\ th[t].pre.magic = LISTENER_MAGIC

(* The handles of the sockets that the call of thread t has created.       *)
Created(t) ==
    {th[t].trace[i].arg : i \in {j \in 1..Len(th[t].trace) :
                                   /\ th[t].trace[j].call = "socket"
                                   /\ th[t].trace[j].arg # INVALID_SOCKET}}

(* A valid tag is the tag of a block that has not been released.           *)
TagImpliesLive == listener.magic = LISTENER_MAGIC => heap = "live"

(* C1, as claimed: on a live listener, an open that starts in Created and  *)
(* succeeds leaves the state Open, and EVERY open that starts in another   *)
(* state returns WS_E_INVALID_OPERATION, changes nothing and makes no      *)
(* decode, bootstrap, resolution or socket call.                           *)
C1_AsClaimed ==
    \A t \in Threads :
       /\ (Finished(t, "open") /\ th[t].pre.state = WS_LISTENER_STATE_CREATED
             /\ th[t].hr = S_OK)
          => listener.state = WS_LISTENER_STATE_OPEN
       /\ (th[t].op = "open" /\ th[t].pc \in {"leave", "ret"}
             /\ th[t].pre.magic = LISTENER_MAGIC
             /\ th[t].pre.state # WS_LISTENER_STATE_CREATED)
          => /\ th[t].hr = WS_E_INVALID_OPERATION
             /\ th[t].trace = << >>
             /\ (th[t].pc = "leave" => listener = th[t].pre)

(* C1, amended: the same for every open with a non-null url; an open with  *)
(* a null url returns E_INVALIDARG in every state, before it takes the     *)
(* lock, and makes no external call either.                                *)
C1_OpenByState ==
    \A t \in Threads :
       /\ (Finished(t, "open") /\ th[t].pre.state = WS_LISTENER_STATE_CREATED
             /\ th[t].hr = S_OK)
          => listener.state = WS_LISTENER_STATE_OPEN
       /\ (Finished(t, "open") /\ th[t].pre.state # WS_LISTENER_STATE_CREATED)
          => /\ th[t].hr = WS_E_INVALID_OPERATION
             /\ th[t].trace = << >>
             /\ listener = th[t].pre
       /\ (th[t].op = "open" /\ th[t].pc = "ret")
          => /\ th[t].hr = E_INVALIDARG
             /\ th[t].trace = << >>
             /\ t \notin cs.inside

(* An open of a closed listener has been turned away.                      *)
C1_Witness ==
    \E t \in Threads :
       /\ Finished(t, "open")
       /\ th[t].pre.state = WS_LISTENER_STATE_CLOSED
       /\ th[t].hr = WS_E_INVALID_OPERATION

(* C2: every close of a live listener returns S_OK and leaves the state    *)
(* Closed and the socket absent, whatever the state before; on a closed    *)
(* listener it changes no field.                                           *)
C2_CloseAlwaysCloses ==
    \A t \in Threads :
       Finished(t, "close")
       => /\ th[t].hr = S_OK
          /\ listener.state = WS_LISTENER_STATE_CLOSED
          /\ listener.socket = INVALID_SOCKET
          /\ \A h \in SockHandles : h = th[t].pre.socket => sockets[h].st = "free"
          /\ th[t].pre.state = WS_LISTENER_STATE_CLOSED => listener = th[t].pre

(* A close of an open listener has released its socket.                    *)
C2_Witness ==
    \E t \in Threads :
       /\ Finished(t, "close")
       /\ th[t].pre.state = WS_LISTENER_STATE_OPEN
       /\ th[t].pre.socket \in SockHandles
       /\ th[t].hr = S_OK

(* C3: an open of a live Created listener that does not reach state Open   *)
(* returns an error and leaves every field as it found it (state Created,  *)
(* socket absent, same table), with every socket it created released.      *)
C3_OpenFailsAtomically ==
    \A t \in Threads :
       (Finished(t, "open") /\ th[t].pre.state = WS_LISTENER_STATE_CREATED)
       => /\ th[t].hr = S_OK <=> listener.state = WS_LISTENER_STATE_OPEN
          /\ th[t].hr # S_OK
             => /\ listener = th[t].pre
                /\ listener.state = WS_LISTENER_STATE_CREATED
                /\ listener.socket = INVALID_SOCKET
                /\ \A h \in Created(t) : sockets[h].st = "free"

(* An open has failed in listen, after it created and bound a socket.      *)
C3_Witness ==
    \E t \in Threads :
       /\ Finished(t, "open")
       /\ th[t].hr = HRESULT_FROM_WIN32(WSAEADDRINUSE)
       /\ Created(t) # {}
       /\ \E i \in 1..Len(th[t].trace) : th[t].trace[i].call = "listen"

(* C4, as claimed: a call of open, close, getProperty or setProperty made  *)
(* after WsFreeListener has released the block returns E_INVALIDARG and    *)
(* writes no field of the listener.                                        *)
C4_AsClaimed ==
    \A t \in Threads :
       (th[t].after /\ th[t].pc = "leave" /\ th[t].op \in {"open", "close", "get", "set"})
       => /\ th[t].hr = E_INVALIDARG
          /\ listener = th[t].pre

(* C5, as claimed: the tag is cleared once, the critical section deleted   *)
(* and the block freed once, and no step touches the block or its lock     *)
(* after the block has been freed.                                         *)
C5_AsClaimed ==
    /\ ghost.magicClears <= 1
    /\ ghost.csDeletes <= 1
    /\ ghost.heapFrees <= 1
    /\ ~ghost.uaf

(* C6, as claimed: every access to the tag, the state, the socket or the   *)
(* table by a public function, the reset of WsFreeListener included, is    *)
(* made by a thread that is inside the critical section.                   *)
C6_AsClaimed == ghost.unlocked = {}

(* C6, amended: WsOpenListener, WsCloseListener, WsGetListenerProperty and *)
(* WsSetListenerProperty make every such access inside the critical        *)
(* section, and so does WsFreeListener for the tag; free_listener alone    *)
(* (reset, socket release, deallocation) runs after the lock is released,  *)
(* on a block whose tag is already cleared.                                *)
C6_LockedButFreeListener ==
    /\ ghost.unlocked \subseteq {"free_listener"}
    /\ \A t \in Threads :
          /\ th[t].pc \in {"body", "parse_url", "winsock_init", "winsock_startup", "resolve",
                           "socket",
                           "bind", "listen", "leave"} => t \in cs.inside
          /\ th[t].pc = "free_listener" => (t \notin cs.inside /\ listener.magic = 0)

(* free_listener has run, outside the critical section.                    *)
C6_Witness ==
    /\ "free_listener" \in ghost.unlocked
    /\ heap = "freed"

(* The ids that the schema marks read-only, as the claim C7 lists them.    *)
ReadOnlyIds == {WS_LISTENER_PROPERTY_STATE, WS_LISTENER_PROPERTY_CHANNEL_TYPE,
                WS_LISTENER_PROPERTY_CHANNEL_BINDING,
                WS_LISTENER_PROPERTY_CUSTOM_LISTENER_INSTANCE}

(* What a caller reads back of a listener: getProperty of every id with a  *)
(* buffer of every size.                                                   *)
ReadBack(l) ==
    [id \in PropIds |-> [size \in ArgSizes |-> get_property(l, id, TRUE, size)]]

(* C7: a setProperty of a read-only id on a live listener returns          *)
(* E_INVALIDARG whatever the value and the size, and changes neither a     *)
(* field, nor a slot of the table, nor what getProperty returns; the state *)
(* field changes in no getProperty or setProperty call.                    *)
C7_ReadOnlyRejected ==
    \A t \in Threads :
       /\ (Finished(t, "set") /\ th[t].id \in ReadOnlyIds)
          => /\ th[t].hr = E_INVALIDARG
             /\ listener = th[t].pre
             /\ ReadBack(listener) = ReadBack(th[t].pre)
       /\ (Finished(t, "set") \/ Finished(t, "get"))
          => /\ listener.state = th[t].pre.state
             /\ listener.type = th[t].pre.type
             /\ listener.binding = th[t].pre.binding

(* A setProperty of the state, with a value of the declared size, on an    *)
(* open listener has been rejected.                                        *)
C7_Witness ==
    \E t \in Threads :
       /\ Finished(t, "set")
       /\ th[t].id = WS_LISTENER_PROPERTY_STATE
       /\ th[t].size = SIZEOF_ULONG /\ th[t].value \in Vals
       /\ th[t].pre.state = WS_LISTENER_STATE_OPEN
       /\ th[t].hr = E_INVALIDARG

(* The writable fixed-size ids among the ids the callers use, and N.       *)
WritableFixedIds ==
    {id \in PropIds : /\ id < PropCount
                      /\ listener_props[id + 1].size # 0
                      /\ ~listener_props[id + 1].readonly}
DeclaredSize(id) == listener_props[id + 1].size

(* C8: for a writable fixed-size id of declared size N on a live listener, *)
(* getProperty into a buffer of a size other than N returns E_INVALIDARG;  *)
(* into a buffer of N bytes it returns S_OK and the bytes of the last      *)
(* successful write (override or setProperty), zeros when there is none;   *)
(* setProperty with a size other than N returns E_INVALIDARG and leaves    *)
(* what is read back unchanged.                                            *)
C8_FixedSizeRoundTrip ==
    \A t \in Threads :
       /\ (Finished(t, "get") /\ th[t].id \in WritableFixedIds /\ th[t].buf)
          => IF th[t].size # DeclaredSize(th[t].id)
             THEN th[t].hr = E_INVALIDARG /\ ~th[t].out.written
             ELSE /\ th[t].hr = S_OK
                  /\ th[t].out = [written |-> TRUE, value |-> lastSet[th[t].id].value]
       /\ (Finished(t, "set") /\ th[t].id \in WritableFixedIds
             /\ th[t].size # DeclaredSize(th[t].id))
          => /\ th[t].hr = E_INVALIDARG
             /\ ReadBack(listener) = ReadBack(th[t].pre)
       /\ (Finished(t, "set") /\ th[t].id \in WritableFixedIds
             /\ th[t].size = DeclaredSize(th[t].id) /\ th[t].value # NULL)
          => /\ th[t].hr = S_OK
             /\ lastSet[th[t].id].value = th[t].value

(* A getProperty has returned a non-zero value written before it.          *)
C8_Witness ==
    \E t \in Threads :
       /\ Finished(t, "get")
       /\ th[t].id = WS_LISTENER_PROPERTY_LISTEN_BACKLOG
       /\ th[t].hr = S_OK
       /\ th[t].out.written /\ th[t].out.value = MaxVal

(* An override that prop_set rejects: its id is outside the schema, or    *)
(* read-only, or its size is not the declared size of a fixed-size id.     *)
BadOverride(o) ==
    \/ o.id >= PropCount
    \/ listener_props[o.id + 1].readonly
    \/ /\ listener_props[o.id + 1].size # 0
       /\ o.size # listener_props[o.id + 1].size
    \/ o.value = NULL /\ o.size # 0

(* The call of WsCreateListener that has returned reached the loop of      *)
(* create_listener: handle slot, type and binding accepted, block allocated. *)
ReachedOverrides ==
    /\ create.phase = "returned"
    /\ create.handle
    /\ create.type = WS_CHANNEL_TYPE_DUPLEX_SESSION
    /\ create.binding = WS_TCP_CHANNEL_BINDING
    /\ create.trace # << >> /\ create.trace[1] = Ev("heap_alloc_zero", 1)

(* The indexes of the overrides handed to prop_set, in the order of the calls. *)
PropSetCalls ==
    LET idx == {j \in 1..Len(create.trace) : create.trace[j].call = "prop_set"}
        Nth[n \in 0..Len(create.trace)] ==
            IF n = 0 THEN << >>
            ELSE Nth[n - 1] \o (IF n \in idx THEN << create.trace[n].arg >> ELSE << >>)
    IN  Nth[Len(create.trace)]

CallCount(call) ==
    Cardinality({j \in 1..Len(create.trace) : create.trace[j].call = call})

Unsupported ==
    /\ create.phase = "returned"
    /\ \/ create.type # WS_CHANNEL_TYPE_DUPLEX_SESSION
       \/ create.binding # WS_TCP_CHANNEL_BINDING

(* C10 as stated: every WsCreateListener call with a channel type other    *)
(* than duplex-session or a binding other than TCP returns E_NOTIMPL.      *)
C10_AsClaimed == Unsupported => create.hr = E_NOTIMPL

(* C10: a WsCreateListener call with a non-null handle slot and a channel  *)
(* type other than duplex-session or a binding other than TCP returns      *)
(* E_NOTIMPL, writes no handle and allocates nothing; with a null handle   *)
(* slot it returns E_INVALIDARG, and allocates nothing either; a handle is *)
(* written only for duplex-session over TCP.                               *)
C10_UnsupportedNotImplemented ==
    /\ Unsupported =>
          /\ create.hr = (IF create.handle THEN E_NOTIMPL ELSE E_INVALIDARG)
          /\ ~create.written
          /\ create.trace = << >>
          /\ heap = "none" /\ listener = ZeroListener /\ ~cs.valid
    /\ (create.phase = "returned" /\ create.written) =>
          /\ create.type = WS_CHANNEL_TYPE_DUPLEX_SESSION
          /\ create.binding = WS_TCP_CHANNEL_BINDING

(* A call with a handle slot, the duplex-session type and the UDP binding  *)
(* has returned E_NOTIMPL.                                                 *)
C10_Witness ==
    /\ Unsupported
    /\ create.handle
    /\ create.type = WS_CHANNEL_TYPE_DUPLEX_SESSION
    /\ create.binding = WS_UDP_CHANNEL_BINDING
    /\ create.hr = E_NOTIMPL

(* The steps of an open that come after winsock_init.                      *)
AfterWinsockInit == {"resolve", "socket", "bind", "listen"}

(* C11: whatever the number of threads that open, this listener or         *)
(* others, for the first time and at the same time, WSAStartup is run at   *)
(* most once, by one thread at a time, and every opener that is past       *)
(* winsock_init finds that one run completed.                              *)
C11_StartupOnce ==
    /\ winsock.startups <= 1
    /\ Cardinality({t \in Threads : th[t].pc = "winsock_startup"}) <= 1
    /\ (\E t \in Threads : th[t].pc = "winsock_startup") <=> winsock.once = "running"
    /\ winsock.once = "done" <=> winsock.startups = 1
    /\ \A t \in Threads :
          th[t].pc \in AfterWinsockInit => winsock.once = "done" /\ winsock.startups = 1

(* Two first-time openers are in winsock_init at once: one runs the        *)
(* callback, the other one waits for it.                                   *)
C11_Witness ==
    \E t, u \in Threads :
       /\ t # u
       /\ th[t].pc = "winsock_startup"
       /\ th[u].pc = "winsock_init"
       /\ winsock.startups = 0

(* C12: a public function that returns an error has not written its       *)
(* output parameter: a getProperty that fails (tag not valid, size or      *)
(* buffer or id rejected) leaves the caller's buffer alone, and a          *)
(* WsCreateListener that fails leaves the caller's handle slot alone.      *)
C12_NoOutputOnError ==
    /\ \A t \in Threads :
          (th[t].pc = "leave" /\ th[t].op = "get" /\ th[t].hr # S_OK)
          => th[t].out = NoOut
    /\ (create.phase = "returned" /\ create.hr # S_OK) => ~create.written

(* A getProperty of a writable id into a buffer of the wrong size has      *)
(* failed.                                                                 *)
C12_Witness ==
    \E t \in Threads :
       /\ Finished(t, "get")
       /\ th[t].id = WS_LISTENER_PROPERTY_LISTEN_BACKLOG
       /\ th[t].buf /\ th[t].size = SIZEOF_PTR
       /\ th[t].hr = E_INVALIDARG

(* The listener is live and no thread is inside its critical section.     *)
Quiescent ==
    /\ heap = "live"
    /\ listener.magic = LISTENER_MAGIC
    /\ cs.inside = {}

(* C13: whenever a live listener is observed with no operation holding    *)
(* its lock, its socket field names a bound, listening socket when its     *)
(* state is Open, and is -1 when its state is Created or Closed.           *)
C13_SocketIffOpen ==
    Quiescent =>
       IF listener.state = WS_LISTENER_STATE_OPEN
       THEN /\ listener.socket \in SockHandles
            /\ sockets[listener.socket].st = "listening"
       ELSE /\ listener.state \in {WS_LISTENER_STATE_CREATED, WS_LISTENER_STATE_CLOSED}
            /\ listener.socket = INVALID_SOCKET

(* An open listener at rest, holding its socket.                           *)
C13_Witness ==
    /\ Quiescent
    /\ listener.state = WS_LISTENER_STATE_OPEN
    /\ listener.socket \in SockHandles

(* The listener can be observed by getProperty: its block is allocated    *)
(* and its tag valid.                                                      *)
Live == heap = "live" /\ listener.magic = LISTENER_MAGIC

(* C14: from one step to the next the state of a live listener stays the   *)
(* same or moves from Created to Open, from Created to Closed or from Open *)
(* to Closed; the step in which an open succeeds starts in Created, so no  *)
(* second open of the handle succeeds.                                     *)
C14_StateMovesForward ==
    [][(Live /\ Live')
       => /\ \/ listener'.state = listener.state
             \/ /\ listener.state = WS_LISTENER_STATE_CREATED
                /\ listener'.state \in {WS_LISTENER_STATE_OPEN, WS_LISTENER_STATE_CLOSED}
             \/ /\ listener.state = WS_LISTENER_STATE_OPEN
                /\ listener'.state = WS_LISTENER_STATE_CLOSED
          /\ \A t \in Threads :
                (th[t].pc = "listen" /\ th'[t].pc = "leave" /\ th'[t].hr = S_OK)
                => /\ th[t].pre.state = WS_LISTENER_STATE_CREATED
                   /\ listener.state = WS_LISTENER_STATE_CREATED
                   /\ listener'.state = WS_LISTENER_STATE_OPEN]_vars

(* A getProperty of the state has read Open: the listener has moved on    *)
(* from Created.                                                           *)
C14_Witness ==
    \E t \in Threads :
       /\ Finished(t, "get")
       /\ th[t].id = WS_LISTENER_PROPERTY_STATE
       /\ th[t].out = [written |-> TRUE, value |-> WS_LISTENER_STATE_OPEN]

(* The handles that name a socket of the process.                         *)
OpenSockets == {h \in SockHandles : sockets[h].st # "free"}

(* The steps of a call that are made inside the critical section.          *)
InsideSteps == {"body", "parse_url", "winsock_init", "winsock_startup", "resolve",
                "socket", "bind", "listen", "leave"}

(* C15: an open and a close that are called at the same time on a live     *)
(* listener run one after the other: at most one of them is past its       *)
(* EnterCriticalSection; the socket that a close releases is -1 or a       *)
(* listening socket, never one that an open has yet to bind or listen on;  *)
(* the close ends with state Closed, socket -1 and one closesocket call,   *)
(* whichever of the two calls ends last leaves no socket behind, and a     *)
(* closed listener at rest has socket -1 and no socket left.               *)
C15_OpenCloseSerialised ==
    /\ [](/\ Cardinality({t \in Threads : th[t].pc \in InsideSteps}) <= 1
          /\ \A t \in Threads : th[t].pc \in InsideSteps <=> t \in cs.inside
          /\ \A t \in Threads :
                /\ Finished(t, "close")
                   => /\ listener.state = WS_LISTENER_STATE_CLOSED
                      /\ listener.socket = INVALID_SOCKET
                      /\ th[t].trace = << Ev("closesocket", th[t].pre.socket) >>
                      /\ OpenSockets = {}
                /\ (Finished(t, "open") /\ th[t].pre.state = WS_LISTENER_STATE_CLOSED)
                   => /\ th[t].trace = << >>
                      /\ OpenSockets = {}
          /\ (Quiescent /\ listener.state = WS_LISTENER_STATE_CLOSED)
             => listener.socket = INVALID_SOCKET /\ OpenSockets = {})
    /\ [][\A t \in Threads :
             (th[t].pc = "body" /\ th[t].op = "close" /\ th'[t].pc = "leave")
             => \/ listener.socket = INVALID_SOCKET
                \/ /\ listener.socket \in SockHandles
                   /\ sockets[listener.socket].st = "listening"
                   /\ sockets'[listener.socket].st = "free"]_vars

(* A close waits for the lock while an open holds a socket that it has     *)
(* created and not bound yet.                                              *)
C15_Witness ==
    \E t, u \in Threads :
       /\ th[t].pc = "enter" /\ th[t].op = "close"
       /\ th[u].pc = "bind" /\ th[u].op = "open"
       /\ th[u].pre.state = WS_LISTENER_STATE_CREATED
       /\ listener.socket \in OpenSockets

SocketCalls == {"GetAddrInfoW", "socket", "bind", "listen", "closesocket"}

(* The arguments of the calls of the given names in a trace.               *)
Args(trace, calls) ==
    {trace[i].arg : i \in {j \in 1..Len(trace) : trace[j].call \in calls}}

(* C16, as claimed: as long as WSAStartup has not been run, no call of a   *)
(* public function has made a call into the socket layer: no lookup, no    *)
(* socket, bind or listen, and no closesocket in a close, in a free or in  *)
(* the cleanup of a failed construction.                                   *)
C16_AsClaimed ==
    winsock.once # "done"
    => /\ \A t \in Threads : Args(th[t].trace, SocketCalls) = {}
       /\ Args(create.trace, SocketCalls) = {}
       /\ ghost.heapFrees = 0

(* C17, as claimed: every closesocket that the listener has made, in a     *)
(* close, in the error paths of open or in the cleanup of a failed         *)
(* construction, was given the handle of a socket that the listener had    *)
(* created.                                                                *)
C17_AsClaimed ==
    /\ \A t \in Threads : Args(th[t].trace, {"closesocket"}) \subseteq SockHandles
    /\ Args(create.trace, {"closesocket"}) \subseteq SockHandles

(* The positions in a list of candidate addresses whose family is IPv4 or *)
(* IPv6.                                                                   *)
InetPositions(res) == {i \in 1..Len(res) : res[i] \in {AF_INET, AF_INET6}}

(* C19: once an open of a live listener has made its lookup: when the      *)
(* lookup failed the open returns the HRESULT of the lookup's error, and   *)
(* when it returned no IPv4 or IPv6 candidate the open returns             *)
(* WS_E_ADDRESS_NOT_AVAILABLE, in both cases without creating a socket;    *)
(* otherwise the family selected is that of the first IPv4 or IPv6         *)
(* candidate in the order of the list, and it is the family of the socket  *)
(* that the open creates.                                                  *)
C19_FirstInetCandidate ==
    \A t \in Threads :
       (th[t].op = "open" /\ th[t].pre.magic = LISTENER_MAGIC
          /\ Args(th[t].trace, {"GetAddrInfoW"}) # {})
       => IF th[t].err # 0
          THEN /\ th[t].pc = "leave"
               /\ th[t].hr = HRESULT_FROM_WIN32(th[t].err)
               /\ th[t].hr # S_OK
               /\ Args(th[t].trace, {"socket"}) = {}
          ELSE IF InetPositions(th[t].res) = {}
          THEN /\ th[t].pc = "leave"
               /\ th[t].hr = WS_E_ADDRESS_NOT_AVAILABLE
               /\ Args(th[t].trace, {"socket"}) = {}
          ELSE LET first == CHOOSE i \in InetPositions(th[t].res) :
                               \A j \in InetPositions(th[t].res) : i <= j
               IN  /\ th[t].family = th[t].res[first]
                   /\ (th[t].pc \in {"bind", "listen"}
                         \/ (th[t].pc = "leave" /\ th[t].hr = S_OK))
                      => /\ listener.socket \in SockHandles
                         /\ sockets[listener.socket].family = th[t].res[first]

(* An open has created an IPv6 socket for a list whose first candidate is  *)
(* of another family.                                                      *)
C19_Witness ==
    \E t \in Threads :
       /\ th[t].op = "open" /\ th[t].pc = "bind"
       /\ th[t].res = << AF_NETBIOS, AF_INET6 >>
       /\ listener.socket \in SockHandles
       /\ sockets[listener.socket].family = AF_INET6

(* C20: the socket of every open that has succeeded was put to listen with *)
(* a backlog of 0, whatever the table holds for                            *)
(* WS_LISTENER_PROPERTY_LISTEN_BACKLOG.                                    *)
C20_BacklogZero ==
    \A t \in Threads :
       (Finished(t, "open") /\ th[t].hr = S_OK)
       => /\ listener.socket \in SockHandles
          /\ sockets[listener.socket].st = "listening"
          /\ sockets[listener.socket].backlog = 0

(* An open has succeeded on a listener whose configured backlog is not 0.  *)
C20_Witness ==
    \E t \in Threads :
       /\ Finished(t, "open") /\ th[t].hr = S_OK
       /\ get_property(listener, WS_LISTENER_PROPERTY_LISTEN_BACKLOG, TRUE,
                       SIZEOF_ULONG).value = MaxVal
       /\ sockets[listener.socket].backlog = 0

====
